---- MODULE Spec2Model ----
(***************************************************************************)
(* Rectangle / convex-ROI collision detection by the separating axis       *)
(* method (collision_detect.cpp): Vec and Point arithmetic, the rectangle  *)
(* to polygon conversion, the bounding-box prefilter and the axis loop of  *)
(* collision_detect, one action per step of a call.                        *)
(***************************************************************************)
EXTENDS Integers, Sequences, FiniteSets, TLC

(***************************************************************************)
(* Bounds of the model.                                                    *)
(***************************************************************************)
\* Width in bits of the model's int.  The program's int is wider; the width
\* is scaled so that the exact (unbounded) value of every sum and product
\* can be computed next to the wrapped one.
IntBits == 18
\* ROI vertices of the exhaustive specification lie on 0..GridMax squared.
GridMax == 2
\* Longest ROI of the exhaustive specification.
MaxRoiLen == 4
\* rect.left and rect.top range over -RectPad .. GridMax + RectPad.
RectPad == 1
\* rect.width and rect.height range over 0..MaxSide.
MaxSide == 1
\* Calls made in one behaviour of the call-sequence specification.
MaxCalls == 3

\* Cells per side of the coarse grid of the overflow specification.
OvfCells == 1

VARIABLES
    roi,         \* the caller's ROI, argument of the current or last call
    rect,        \* the caller's rectangle, argument of the current or last call
    pc,          \* "idle" | "loop" | "done": position of collision_detect
    bbox,        \* locals x1, y1, x2, y2 of collision_detect
    rec_points,  \* local rec_points
    i,           \* loop index of the axis loop
    ret,         \* the returned boolean, meaningful when pc = "done"
    axes,        \* history: the axes examined by the current call, in order
    ub,          \* history: a signed overflow happened in the current call
    notices,     \* number of "roi points must >= 3" lines printed
    calls,       \* number of calls started
    memo,        \* history: <<>> or <<c>>, c an earlier completed call
    lastInvalid  \* history: the previous completed call had fewer than 3 points

vars == <<roi, rect, pc, bbox, rec_points, i, ret, axes, ub, notices, calls,
          memo, lastInvalid>>

(***************************************************************************)
(* int: two's complement of IntBits bits.                                  *)
(***************************************************************************)
INT_MAX == 2 ^ (IntBits - 1) - 1
INT_MIN == - (2 ^ (IntBits - 1))

InRange(v) == INT_MIN <= v /\ v <= INT_MAX

\* The value an int holds after an operation whose exact result is v.
Wrap(v) == ((v - INT_MIN) % (2 ^ IntBits)) + INT_MIN

Min(a, b) == IF b < a THEN b ELSE a
Max(a, b) == IF a < b THEN b ELSE a

(***************************************************************************)
(* Vec and Point.                                                          *)
(***************************************************************************)
Vec(vx, vy) == [x |-> vx, y |-> vy]
Point(px, py) == [x |-> px, y |-> py]

\* A normal that is not perpendicular: the vector itself.
NormalNotTurned(v) == Vec(v.x, v.y)

\* Vec::Normal
Normal(v) == Vec(v.y, Wrap(- v.x))

\* A dot product accumulated in an integer wide enough for every product.
DotWide(a, b) == a.x * b.x + a.y * b.y

\* Vec::operator*
Dot(a, b) == Wrap(Wrap(a.x * b.x) + Wrap(a.y * b.y))

\* Point::operator-
PointSub(p, rhs) == Vec(Wrap(p.x - rhs.x), Wrap(p.y - rhs.y))

\* Point::toVec
toVec(p) == Vec(p.x, p.y)

\* Whether the exact value of an operation leaves the range of int.
NormalOvf(v) == ~ InRange(- v.x)
DotOvf(a, b) ==
    \/ ~ InRange(a.x * b.x)
    \/ ~ InRange(a.y * b.y)
    \/ ~ InRange(Wrap(a.x * b.x) + Wrap(a.y * b.y))
PointSubOvf(p, rhs) == ~ InRange(p.x - rhs.x) \/ ~ InRange(p.y - rhs.y)

(***************************************************************************)
(* rect_to_points                                                          *)
(***************************************************************************)
Rect(l, t, w, h) == [left |-> l, top |-> t, width |-> w, height |-> h]

\* A conversion that lists the bottom-left corner before the bottom-right.
rect_to_points_swapped(r) ==
    << Point(r.left, r.top),
       Point(Wrap(r.left + r.width), r.top),
       Point(r.left, Wrap(r.top + r.height)),
       Point(Wrap(r.left + r.width), Wrap(r.top + r.height)) >>

rect_to_points(r) ==
    << Point(r.left, r.top),
       Point(Wrap(r.left + r.width), r.top),
       Point(Wrap(r.left + r.width), Wrap(r.top + r.height)),
       Point(r.left, Wrap(r.top + r.height)) >>

RectOvf(r) == ~ InRange(r.left + r.width) \/ ~ InRange(r.top + r.height)

(***************************************************************************)
(* collision_detect: the bounding box and the prefilter.                   *)
(***************************************************************************)
\* A size check that lets a 2-point ROI through.
TooFewPointsBelow2(r) == Len(r) < 2

\* if (roi.size() < 3)
TooFewPoints(r) == Len(r) < 3

\* Accumulators that keep their values from one call to the next, as static
\* locals would.
BBoxInitStatic == bbox

\* int x1 = INT_MAX, y1 = INT_MAX; int x2 = INT_MIN, y2 = INT_MIN;
BBoxInit == [x1 |-> INT_MAX, y1 |-> INT_MAX, x2 |-> INT_MIN, y2 |-> INT_MIN]

\* One iteration of "for (const auto &p : roi)".
BBoxAdd(b, p) ==
    [x1 |-> Min(b.x1, p.x), y1 |-> Min(b.y1, p.y),
     x2 |-> Max(b.x2, p.x), y2 |-> Max(b.y2, p.y)]

RECURSIVE BBoxFold(_, _, _)
BBoxFold(b, r, k) ==
    IF k > Len(r) THEN b ELSE BBoxFold(BBoxAdd(b, r[k]), r, k + 1)

BoundingBox(r) == BBoxFold(BBoxInit, r, 1)

\* A prefilter that also rejects boxes that touch.
BoxesDisjointNonStrict(b, r) ==
    \/ r.left >= b.x2
    \/ Wrap(r.left + r.width) <= b.x1
    \/ r.top >= b.y2
    \/ Wrap(r.top + r.height) <= b.y1

\* The condition of the early return of the prefilter.
BoxesDisjoint(b, r) ==
    \/ r.left > b.x2
    \/ Wrap(r.left + r.width) < b.x1
    \/ r.top > b.y2
    \/ Wrap(r.top + r.height) < b.y1

(***************************************************************************)
(* collision_detect: one iteration of the axis loop.                       *)
(***************************************************************************)
project_cnt(r) == Len(r) + 2

\* The edge <<p0, p1>> of iteration k (0-based); sequences are 1-based.
EdgeOf(k, r, rp) ==
    IF k < Len(r)
    THEN << r[k + 1], r[((k + 1) % Len(r)) + 1] >>
    ELSE LET idx == project_cnt(r) - Len(r)
         IN  << rp[idx + 1], rp[idx + 2] >>

RECURSIVE PjFold(_, _, _, _)
\* The running <<min, max>> of the projections of points ps[k..] on normal n.
PjFold(mm, n, ps, k) ==
    IF k > Len(ps) THEN mm
    ELSE LET len == Dot(n, toVec(ps[k]))
         IN  PjFold(<< Min(mm[1], len), Max(mm[2], len) >>, n, ps, k + 1)

Project(n, ps) == PjFold(<< INT_MAX, INT_MIN >>, n, ps, 1)

\* An interval test that takes touching intervals for disjoint ones.
SeparatedNonStrict(roi_pj, rec_pj) ==
    rec_pj[1] >= roi_pj[2] \/ rec_pj[2] <= roi_pj[1]

\* if (rec_pj_min > roi_pj_max || rec_pj_max < roi_pj_min)
Separated(roi_pj, rec_pj) == rec_pj[1] > roi_pj[2] \/ rec_pj[2] < roi_pj[1]

\* What iteration k computes: the edge, its normal and the two intervals.
Axis(k, r, rp) ==
    LET e == EdgeOf(k, r, rp)
        n == Normal(PointSub(e[2], e[1]))
    IN  [idx |-> k, p0 |-> e[1], p1 |-> e[2], normal |-> n,
         roi_pj |-> Project(n, r), rec_pj |-> Project(n, rp)]

AxisOvf(k, r, rp) ==
    LET e == EdgeOf(k, r, rp)
        v == PointSub(e[2], e[1])
        n == Normal(v)
    IN  \/ PointSubOvf(e[2], e[1])
        \/ NormalOvf(v)
        \/ \E q \in 1..Len(r) : DotOvf(n, toVec(r[q]))
        \/ \E q \in 1..Len(rp) : DotOvf(n, toVec(rp[q]))

\* The axis loop as a function of its inputs: TRUE when no iteration returns.
AxisLoop(r, rp) ==
    \A k \in 0..(project_cnt(r) - 1) :
        LET a == Axis(k, r, rp) IN ~ Separated(a.roi_pj, a.rec_pj)

\* collision_detect as a function of its inputs.
collision_detect(r, rc) ==
    IF TooFewPoints(r) THEN FALSE
    ELSE IF BoxesDisjoint(BoundingBox(r), rc) THEN FALSE
    ELSE AxisLoop(r, rect_to_points(rc))

(***************************************************************************)
(* Inputs.                                                                 *)
(***************************************************************************)
Grid == { Point(px, py) : px \in 0..GridMax, py \in 0..GridMax }

Cross(a, b, c) == (b.x - a.x) * (c.y - b.y) - (b.y - a.y) * (c.x - b.x)

\* Strictly convex with a consistent winding: every turn has the same sign.
Convex(r) ==
    LET n == Len(r)
        turn(k) == Cross(r[k], r[(k % n) + 1], r[((k + 1) % n) + 1])
    IN  \/ \A k \in 1..n : turn(k) > 0
        \/ \A k \in 1..n : turn(k) < 0

SeqsOf(S, n) == [1..n -> S]

\* Degenerate ROIs: 0, 1 or 2 points.
ShortROIs == UNION { SeqsOf(Grid, n) : n \in 0..2 }

ConvexROIs ==
    UNION { { r \in SeqsOf(Grid, n) : Convex(r) } : n \in 3..MaxRoiLen }

ROIs == ShortROIs \cup ConvexROIs

Rects ==
    { Rect(l, t, w, h) : l \in (0 - RectPad)..(GridMax + RectPad),
                         t \in (0 - RectPad)..(GridMax + RectPad),
                         w \in 0..MaxSide, h \in 0..MaxSide }

(***************************************************************************)
(* Actions.                                                                *)
(***************************************************************************)
\* The state before a call: the caller holds the ROI r.
Start(r) ==
    /\ roi = r
    /\ rect = Rect(0, 0, 0, 0)
    /\ pc = "idle"
    /\ bbox = [x1 |-> 0, y1 |-> 0, x2 |-> 0, y2 |-> 0]
    /\ rec_points = << >>
    /\ i = 0
    /\ ret = FALSE
    /\ axes = << >>
    /\ ub = FALSE
    /\ notices = 0
    /\ calls = 0
    /\ memo = << >>
    /\ lastInvalid = FALSE

Init == \E r \in ROIs : Start(r)

\* collision_detect(roi, rc) from its entry to the start of the axis loop.
Call(rc) ==
    /\ pc = "idle"
    /\ calls < MaxCalls
    /\ calls' = calls + 1
    /\ rect' = rc
    /\ axes' = << >>
    /\ i' = 0
    /\ UNCHANGED << roi, memo, lastInvalid >>
    /\ IF TooFewPoints(roi)
       THEN /\ notices' = notices + 1
            /\ ret' = FALSE
            /\ pc' = "done"
            /\ ub' = FALSE
            /\ UNCHANGED << bbox, rec_points >>
       ELSE LET b == BoundingBox(roi)
            IN  /\ bbox' = b
                /\ ub' = RectOvf(rc)
                /\ UNCHANGED notices
                /\ IF BoxesDisjoint(b, rc)
                   THEN /\ ret' = FALSE
                        /\ pc' = "done"
                        /\ UNCHANGED rec_points
                   ELSE /\ rec_points' = rect_to_points(rc)
                        /\ pc' = "loop"
                        /\ UNCHANGED ret

\* One iteration of the axis loop.
AxisStep ==
    /\ pc = "loop"
    /\ i < project_cnt(roi)
    /\ LET a == Axis(i, roi, rec_points)
       IN  /\ axes' = Append(axes, a)
           /\ ub' = (ub \/ AxisOvf(i, roi, rec_points))
           /\ IF Separated(a.roi_pj, a.rec_pj)
              THEN /\ ret' = FALSE
                   /\ pc' = "done"
                   /\ UNCHANGED i
              ELSE /\ i' = i + 1
                   /\ UNCHANGED << ret, pc >>
    /\ UNCHANGED << roi, rect, bbox, rec_points, notices, calls, memo,
                    lastInvalid >>

\* A loop that ends after the ROI edges, the rectangle axes left out.
LoopExitEarly ==
    /\ pc = "loop"
    /\ ~ (i < Len(roi))
    /\ ret' = TRUE
    /\ pc' = "done"
    /\ UNCHANGED << roi, rect, bbox, rec_points, i, axes, ub, notices, calls,
                    memo, lastInvalid >>

\* The loop ends without a separating axis: return true.
LoopExit ==
    /\ pc = "loop"
    /\ ~ (i < project_cnt(roi))
    /\ ret' = TRUE
    /\ pc' = "done"
    /\ UNCHANGED << roi, rect, bbox, rec_points, i, axes, ub, notices, calls,
                    memo, lastInvalid >>

\* The caller takes the result; with keep, the call is remembered in memo.
Return(keep) ==
    /\ pc = "done"
    /\ pc' = "idle"
    /\ memo' = IF keep THEN << [roi |-> roi, rect |-> rect, ret |-> ret] >>
               ELSE memo
    /\ lastInvalid' = (Len(roi) < 3)
    /\ UNCHANGED << roi, rect, bbox, rec_points, i, ret, axes, ub, notices,
                    calls >>

\* Between two calls the caller builds another ROI.
NewRoi(r) ==
    /\ pc = "idle"
    /\ calls < MaxCalls
    /\ r # roi
    /\ roi' = r
    /\ UNCHANGED << rect, pc, bbox, rec_points, i, ret, axes, ub, notices,
                    calls, memo, lastInvalid >>

(***************************************************************************)
(* Spec: one call, on every ROI and rectangle of the grid.                 *)
(***************************************************************************)
Next ==
    \/ pc = "idle" /\ \E rc \in Rects : Call(rc)
    \/ AxisStep
    \/ LoopExit

Spec == Init /\ [][Next]_vars

(***************************************************************************)
(* SpecCalls: up to MaxCalls calls in a row, as main makes them, on the    *)
(* ROI and rectangles of main and a few more.                              *)
(***************************************************************************)
\* std::vector<Point> roi{Point(200, 0), Point(200, 200), Point(0, 200)};
MainRoi == << Point(200, 0), Point(200, 200), Point(0, 200) >>
rect1 == Rect(0, 0, 100, 100)
rect2 == Rect(50, 50, 40, 40)
rect3 == Rect(201, 101, 50, 50)
rect4 == Rect(180, 100, 50, 50)

\* A triangle with no vertical edge and a rectangle to its right.
SlantRoi == << Point(0, 0), Point(1, 0), Point(2, 1) >>
SlantRect == Rect(3, 1, 1, 1)

CallROIs ==
    { MainRoi, SlantRoi, << >>, << Point(200, 0) >>,
      << Point(200, 0), Point(0, 200) >> }

CallRects == { rect1, rect2, rect3, rect4, SlantRect }

InitCalls == \E r \in CallROIs : Start(r)

NextCalls ==
    \/ pc = "idle" /\ \E rc \in CallRects : Call(rc)
    \/ AxisStep
    \/ LoopExit
    \/ \E keep \in BOOLEAN : Return(keep)
    \/ pc = "idle" /\ \E r \in CallROIs : NewRoi(r)

SpecCalls == InitCalls /\ [][NextCalls]_vars

(***************************************************************************)
(* SpecOvf: one call on coordinates large enough for a product to leave    *)
(* the range of int.  Signed overflow is undefined behaviour; the model    *)
(* takes the two's complement result and records the overflow in ub.       *)
(***************************************************************************)
\* The smallest power of two whose square does not fit an int.
BigK == 2 ^ (IntBits \div 2)

OvfGrid == { Point(a * BigK, b * BigK) : a \in 0..OvfCells, b \in 0..OvfCells }

OvfROIs == { r \in SeqsOf(OvfGrid, 3) : Convex(r) }

OvfRects ==
    { Rect(l * BigK, t * BigK, w * BigK, h * BigK) :
        l \in (0 - OvfCells)..(OvfCells + 1),
        t \in (0 - OvfCells)..(OvfCells + 1),
        w \in 0..OvfCells, h \in 0..OvfCells }

InitOvf == \E r \in OvfROIs : Start(r)

NextOvf ==
    \/ pc = "idle" /\ \E rc \in OvfRects : Call(rc)
    \/ AxisStep
    \/ LoopExit

SpecOvf == InitOvf /\ [][NextOvf]_vars

(***************************************************************************)
(* Geometry the claims are stated in, with exact integers.                 *)
(***************************************************************************)
SetMin(S) == CHOOSE m \in S : \A v \in S : m <= v
SetMax(S) == CHOOSE m \in S : \A v \in S : v <= m

\* The four corners of a rectangle, in the order of section 4.2.
Corners(rc) ==
    << [x |-> rc.left, y |-> rc.top],
       [x |-> rc.left + rc.width, y |-> rc.top],
       [x |-> rc.left + rc.width, y |-> rc.top + rc.height],
       [x |-> rc.left, y |-> rc.top + rc.height] >>

\* The normal (y, -x) of the edge p -> q.
EdgeNormal(p, q) == [x |-> q.y - p.y, y |-> 0 - (q.x - p.x)]

ProjSet(n, ps) == { n.x * ps[k].x + n.y * ps[k].y : k \in 1..Len(ps) }

\* rect_max < roi_min or rect_min > roi_max on the axis n.
StrictlyDisjoint(n, r, rc) ==
    LET A == ProjSet(n, r)
        B == ProjSet(n, Corners(rc))
    IN  SetMax(B) < SetMin(A) \/ SetMin(B) > SetMax(A)

\* The normals of the ROI edges k -> (k+1) mod n.
RoiAxes(r) == { EdgeNormal(r[k], r[(k % Len(r)) + 1]) : k \in 1..Len(r) }

\* The normals of the first two edges of the rectangle.
RectAxes(rc) ==
    LET c == Corners(rc) IN { EdgeNormal(c[1], c[2]), EdgeNormal(c[2], c[3]) }

\* The bounding boxes overlap or touch.
AABBOverlap(r, rc) ==
    LET xs == { r[k].x : k \in 1..Len(r) }
        ys == { r[k].y : k \in 1..Len(r) }
    IN  /\ rc.left <= SetMax(xs)
        /\ rc.left + rc.width >= SetMin(xs)
        /\ rc.top <= SetMax(ys)
        /\ rc.top + rc.height >= SetMin(ys)

Orient(a, b, c) == (b.x - a.x) * (c.y - a.y) - (b.y - a.y) * (c.x - a.x)

Sgn(v) == IF v > 0 THEN 1 ELSE IF v < 0 THEN 0 - 1 ELSE 0

\* p lies on the closed segment a-b.
OnSegment(a, b, p) ==
    /\ Orient(a, b, p) = 0
    /\ Min(a.x, b.x) <= p.x /\ p.x <= Max(a.x, b.x)
    /\ Min(a.y, b.y) <= p.y /\ p.y <= Max(a.y, b.y)

\* The closed segments a-b and c-d have a common point.
SegmentsMeet(a, b, c, d) ==
    \/ /\ Sgn(Orient(a, b, c)) * Sgn(Orient(a, b, d)) < 0
       /\ Sgn(Orient(c, d, a)) * Sgn(Orient(c, d, b)) < 0
    \/ OnSegment(a, b, c) \/ OnSegment(a, b, d)
    \/ OnSegment(c, d, a) \/ OnSegment(c, d, b)

\* p lies in the closed convex polygon r.
InPolygon(p, r) ==
    LET side(k) == Orient(r[k], r[(k % Len(r)) + 1], p)
    IN  \/ \A k \in 1..Len(r) : side(k) >= 0
        \/ \A k \in 1..Len(r) : side(k) <= 0

\* p lies in the closed rectangle rc.
InRect(p, rc) ==
    /\ rc.left <= p.x /\ p.x <= rc.left + rc.width
    /\ rc.top <= p.y /\ p.y <= rc.top + rc.height

\* The closed ROI and the closed rectangle have a common point.
SharePoint(r, rc) ==
    LET c == Corners(rc) IN
    \/ \E k \in 1..4 : InPolygon(c[k], r)
    \/ \E k \in 1..Len(r) : InRect(r[k], rc)
    \/ \E k \in 1..Len(r), j \in 1..4 :
          SegmentsMeet(r[k], r[(k % Len(r)) + 1], c[j], c[(j % 4) + 1])

\* The projections on n only touch: one interval ends where the other starts.
TouchingOn(n, r, rc) ==
    LET A == ProjSet(n, r)
        B == ProjSet(n, Corners(rc))
    IN  SetMax(B) = SetMin(A) \/ SetMin(B) = SetMax(A)

\* The shapes have a common point, and a line through it parallel to an ROI
\* edge or to a rectangle side has the shapes on opposite sides: they meet
\* on their boundaries only.
BoundaryTouch(r, rc) ==
    /\ SharePoint(r, rc)
    /\ \E n \in RoiAxes(r) \cup { [x |-> 1, y |-> 0], [x |-> 0, y |-> 1] } :
          TouchingOn(n, r, rc)

Returned == pc = "done" /\ Len(roi) >= 3 /\ ~ ub

(***************************************************************************)
(* The claims.                                                             *)
(***************************************************************************)
\* C1: a call on an ROI of at least 3 vertices returns true if and only if
\* the bounding boxes overlap (non-strictly) and none of the n + 2 axes
\* (the normals of the ROI edges and of the rectangle's first two edges)
\* has strictly disjoint projection intervals.
C1_TrueIffNoSeparatingAxis ==
    Returned =>
        (ret <=> /\ AABBOverlap(roi, rect)
                 /\ \A n \in RoiAxes(roi) \cup RectAxes(rect) :
                        ~ StrictlyDisjoint(n, roi, rect))

\* C1 witness: the boxes overlap and an ROI edge separates the shapes.
C1_Witness ==
    /\ Returned /\ ~ ret /\ AABBOverlap(roi, rect)
    /\ rect.width > 0 /\ rect.height > 0

\* C2: whenever the prefilter reports the boxes disjoint, the axis loop on
\* the same inputs reports no collision.
C2_PrefilterRedundant ==
    (Returned /\ BoxesDisjoint(BoundingBox(roi), rect))
        => ~ AxisLoop(roi, rect_to_points(rect))

\* C3: when the closed rectangle and the closed ROI meet on their boundaries
\* only, the call returns true; and a call returns false only on boxes or
\* projection intervals that are strictly apart, never on touching ones.
C3_InclusiveBoundary ==
    /\ (Returned /\ BoundaryTouch(roi, rect)) => ret
    /\ (Returned /\ ~ ret) =>
          IF axes = << >>
          THEN ~ AABBOverlap(roi, rect)
          ELSE LET a == axes[Len(axes)]
               IN  a.rec_pj[2] < a.roi_pj[1] \/ a.rec_pj[1] > a.roi_pj[2]

\* C3 witness: a rectangle of positive area meets the ROI in a corner that
\* lies on an ROI edge and is no ROI vertex, and true is returned.
C3_Witness ==
    /\ Returned /\ ret /\ BoundaryTouch(roi, rect)
    /\ rect.width > 0 /\ rect.height > 0
    /\ \A k \in 1..Len(roi) : ~ InRect(roi[k], rect)

\* C5: rect_to_points returns exactly the 4 points top-left, top-right,
\* bottom-right, bottom-left.
C5_RectPoints ==
    (~ ub /\ (pc = "loop" \/ axes # << >>)) =>
        /\ Len(rec_points) = 4
        /\ rec_points[1] = [x |-> rect.left, y |-> rect.top]
        /\ rec_points[2] = [x |-> rect.left + rect.width, y |-> rect.top]
        /\ rec_points[3] = [x |-> rect.left + rect.width,
                            y |-> rect.top + rect.height]
        /\ rec_points[4] = [x |-> rect.left, y |-> rect.top + rect.height]

\* C5 witness: a rectangle of four different corners has been converted.
C5_Witness ==
    /\ pc = "loop" /\ ~ ub
    /\ rect.width > 0 /\ rect.height > 0
    /\ Cardinality({ rec_points[k] : k \in 1..Len(rec_points) }) = 4

\* C8: iteration i < n examines ROI edge i -> (i+1) mod n; the two remaining
\* iterations examine the rectangle edges rec_points[0] -> rec_points[1] and
\* rec_points[1] -> rec_points[2].
C8_AxisEnumeration ==
    \A k \in 1..Len(axes) :
        LET a == axes[k]
            n == Len(roi)
        IN  /\ a.idx < n =>
                /\ a.p0 = roi[a.idx + 1]
                /\ a.p1 = roi[((a.idx + 1) % n) + 1]
            /\ a.idx >= n =>
                /\ a.p0 = rec_points[(a.idx - n) + 1]
                /\ a.p1 = rec_points[(a.idx - n) + 2]

\* rect_max < roi_min or rect_min > roi_max, on an examined axis.
Separates(a) == a.rec_pj[2] < a.roi_pj[1] \/ a.rec_pj[1] > a.roi_pj[2]

RectEdges(rp) == { << rp[k], rp[(k % 4) + 1] >> : k \in 1..4 }

\* C9: the axes are examined one at a time, ROI edges 0..n-1 first and then
\* rectangle axes; the first separating axis ends the call with false and
\* no later axis is examined; true is returned only after n + 2 axes; a
\* call examines at most n + 2 axes, its loop index counting them.
C9_ShortCircuit ==
    LET n == Len(roi) IN
    /\ Len(axes) <= n + 2
    /\ \A k \in 1..Len(axes) :
          /\ axes[k].idx = k - 1
          /\ k <= n => /\ axes[k].p0 = roi[k]
                       /\ axes[k].p1 = roi[(k % n) + 1]
          /\ k > n => << axes[k].p0, axes[k].p1 >> \in RectEdges(rec_points)
          /\ k < Len(axes) => ~ Separates(axes[k])
    /\ pc = "loop" =>
          /\ i = Len(axes)
          /\ \A k \in 1..Len(axes) : ~ Separates(axes[k])
          /\ i <= n + 2
    /\ (pc = "done" /\ axes # << >>) =>
          (ret <=> ~ Separates(axes[Len(axes)]))
    /\ (pc = "done" /\ ret) => Len(axes) = n + 2

\* C9 witness: a call ended by the second ROI edge, after the first did not
\* separate.
C9_Witness ==
    /\ pc = "done" /\ ~ ret /\ Len(axes) = 2
    /\ Separates(axes[2]) /\ ~ Separates(axes[1])

(***************************************************************************)
(* The claims about several calls in a row (SpecCalls).                    *)
(***************************************************************************)
\* The remembered earlier call had the inputs of the current one.
SameAsMemo == memo # << >> /\ memo[1].roi = roi /\ memo[1].rect = rect

\* C4: a call on an ROI of fewer than 3 points returns false normally, after
\* printing the notice and without examining any axis or vertex, the caller
\* goes on, and a later call on a valid ROI returns what the same call
\* returned before the invalid one.
C4_DegenerateRoi ==
    /\ (pc = "done" /\ Len(roi) < 3) =>
          /\ ret = FALSE
          /\ axes = << >>
          /\ notices >= 1
          /\ ENABLED Return(FALSE)
    /\ pc = "loop" => Len(roi) >= 3
    /\ (pc = "done" /\ Len(roi) >= 3 /\ lastInvalid /\ SameAsMemo) =>
          ret = memo[1].ret

\* C4 witness: a valid call that returned true is repeated right after a
\* call on an invalid ROI.
C4_Witness ==
    /\ pc = "done" /\ Len(roi) >= 3 /\ lastInvalid /\ SameAsMemo
    /\ ret /\ notices >= 1

\* C6: on the triangle (200,0), (200,200), (0,200): true for {0,0,100,100};
\* false for {50,50,40,40}, where the boxes overlap and the hypotenuse
\* separates; false for {201,101,50,50} before any axis is examined; true
\* for {180,100,50,50}.
C6_MainScenarios ==
    LET tri == << [x |-> 200, y |-> 0], [x |-> 200, y |-> 200],
                  [x |-> 0, y |-> 200] >>
        rc(l, t, w, h) == [left |-> l, top |-> t, width |-> w, height |-> h]
    IN  (pc = "done" /\ roi = tri) =>
          /\ rect = rc(0, 0, 100, 100) => ret
          /\ rect = rc(50, 50, 40, 40) =>
                /\ ~ ret
                /\ axes # << >>
                /\ axes[Len(axes)].p0 = [x |-> 0, y |-> 200]
                /\ axes[Len(axes)].p1 = [x |-> 200, y |-> 0]
          /\ rect = rc(201, 101, 50, 50) => (~ ret /\ axes = << >>)
          /\ rect = rc(180, 100, 50, 50) => ret

\* C6 witness: the call on {50,50,40,40} has returned false.
C6_Witness ==
    /\ pc = "done" /\ ~ ret /\ Len(roi) = 3 /\ roi[1] = [x |-> 200, y |-> 0]
    /\ rect = [left |-> 50, top |-> 50, width |-> 40, height |-> 40]

\* C7: two calls with the same ROI and rectangle return the same result,
\* whatever calls are made in between, and no step of a call changes the
\* ROI or the rectangle it was given.
C7_Purity ==
    /\ [] ((pc = "done" /\ SameAsMemo) => ret = memo[1].ret)
    /\ [][pc # "idle" => (roi' = roi /\ rect' = rect)]_vars

\* C7 witness: a call that returned false is repeated as the third call.
C7_Witness ==
    /\ pc = "done" /\ SameAsMemo /\ calls = 3 /\ Len(roi) >= 3 /\ ~ ret
    /\ axes # << >>

(***************************************************************************)
(* The claim about overflow (SpecOvf).                                     *)
(***************************************************************************)
\* collision_detect with every difference, sum and product exact.
ExactCollision(r, rc) ==
    /\ Len(r) >= 3
    /\ AABBOverlap(r, rc)
    /\ \A k \in 0..(Len(r) + 1) :
          LET e == EdgeOf(k, r, Corners(rc))
          IN  ~ StrictlyDisjoint(EdgeNormal(e[1], e[2]), r, rc)

CoordsFit(r, rc) ==
    /\ \A k \in 1..Len(r) : InRange(r[k].x) /\ InRange(r[k].y)
    /\ InRange(rc.left) /\ InRange(rc.top)
    /\ InRange(rc.width) /\ InRange(rc.height)

\* C10: on the triangle (K,0), (K,K), (0,K) and the rectangle {-K,-K,K,K},
\* whose coordinates all fit an int, a projection wraps and the call returns
\* another boolean than exact integers give; and a call in which nothing
\* overflows returns what exact integers give.
C10_OverflowChangesResult ==
    LET tri == << [x |-> BigK, y |-> 0], [x |-> BigK, y |-> BigK],
                  [x |-> 0, y |-> BigK] >>
        big == [left |-> 0 - BigK, top |-> 0 - BigK,
                width |-> BigK, height |-> BigK]
    IN  /\ (pc = "done" /\ roi = tri /\ rect = big) =>
              /\ CoordsFit(roi, rect)
              /\ ub
              /\ ret # ExactCollision(roi, rect)
        /\ (pc = "done" /\ ~ ub) => ret = ExactCollision(roi, rect)

\* C10 witness: a call has returned true on shapes that exact integers keep
\* apart, after an overflow.
C10_Witness ==
    /\ pc = "done" /\ ub /\ ret /\ ~ ExactCollision(roi, rect)
    /\ CoordsFit(roi, rect)
    /\ rect.width > 0 /\ rect.height > 0

====
